---- MODULE Spec2Model ----
(***************************************************************************)
(* Model of scripts/remove_white_bg.py: the three background-removal       *)
(* strategies (remove_white_background, remove_near_white_with_edges,      *)
(* process_sprite_sheet) and the backup-then-overwrite driver main.        *)
(*                                                                         *)
(* An image is a record [mode, width, height, data]; data is the row-major *)
(* pixel sequence, pixel (x, y) at index y * width + x + 1.  A pixel of an *)
(* "RGBA" image is <<r, g, b, a>>, a pixel of an "RGB" image <<r, g, b>>.  *)
(***************************************************************************)
EXTENDS Integers, Sequences, FiniteSets

VARIABLES
    img,        \* the decoded input image handed to the strategy
    tol,        \* the tolerance argument of the two whiteners
    outFixed,   \* what remove_white_background saved (NoImage: not run yet)
    outEdge,    \* what remove_near_white_with_edges saved
    pass1,      \* outcome of process_sprite_sheet on img
    pass2,      \* outcome of process_sprite_sheet on the file pass1 saved
    fs,         \* the asset directory: path -> image (NoImage: no such file)
    orig,       \* fs as it was before the first run of main
    runs,       \* number of runs of main so far
    report      \* how the last run of main ended, and what it did

vars == <<img, tol, outFixed, outEdge, pass1, pass2, fs, orig, runs, report>>

----------------------------------------------------------------------------
(* Bounds of the model *)

\* an input image has at most MaxPixels pixels (width * height)
MaxPixels == 4
\* probe colours lie up to MaxDelta below 255 in one channel
MaxDelta == 110
\* main is run at most MaxRuns times in a row
MaxRuns == 3

----------------------------------------------------------------------------
(* Images *)

NoImage == [mode |-> "none", width |-> 0, height |-> 0, data |-> <<>>]

Modes == {"RGB", "RGBA"}

\* colours an image's background is drawn from: opaque white, a transparent
\* grey, an off-white whose channel sums do not divide by 4
BgColours == { <<255, 255, 255, 255>>, <<200, 200, 200, 0>>, <<253, 250, 251, 128>> }

\* a colour d below white in channel k, with alpha 255, 0 or 128
Probe(d, k) ==
    CASE k = 1 -> <<255 - d, 255, 255, 255>>
      [] k = 2 -> <<255, 255 - d, 255, 0>>
      [] OTHER -> <<255, 255, 255 - d, 128>>

ProbeColours(deltas) == { Probe(d, k) : d \in deltas, k \in 1..3 }

\* the two-colour image of the given mode and size: pixel i is c1 where
\* lay[i] holds and c2 elsewhere; an "RGB" image carries no alpha
MkImage(m, w, h, c1, c2, lay) ==
    [mode |-> m, width |-> w, height |-> h,
     data |-> [i \in 1..(w * h) |->
                 LET c == IF lay[i] THEN c1 ELSE c2
                 IN  IF m = "RGBA" THEN c ELSE <<c[1], c[2], c[3]>>]]

\* img.convert('RGBA') when the mode is not RGBA: every pixel gets alpha 255
Convert(im) ==
    IF im.mode # "RGBA"
    THEN [im EXCEPT !.mode = "RGBA",
                    !.data = [i \in DOMAIN im.data |->
                                <<im.data[i][1], im.data[i][2], im.data[i][3], 255>>]]
    ELSE im

\* pixels[x, y] of a loaded image: a negative coordinate counts from the far
\* edge, and a coordinate outside the image raises IndexError
InRange(im, x, y) ==
    LET xx == IF x < 0 THEN x + im.width ELSE x
        yy == IF y < 0 THEN y + im.height ELSE y
    IN  /\ xx >= 0 /\ xx < im.width
        /\ yy >= 0 /\ yy < im.height

GetPixel(im, x, y) ==
    LET xx == IF x < 0 THEN x + im.width ELSE x
        yy == IF y < 0 THEN y + im.height ELSE y
    IN  im.data[yy * im.width + xx + 1]

----------------------------------------------------------------------------
(* remove_white_background *)

\* the rewrite with >= in place of > (an off-by-one threshold)
WhitenItemGe(item, t) ==
    IF item[1] >= (255 - t) /\ item[2] >= (255 - t) /\ item[3] >= (255 - t)
    THEN <<item[1], item[2], item[3], 0>>
    ELSE item

\* lines 30-39: one pixel of the bulk rewrite
WhitenItem(item, tolerance) ==
    LET r == item[1]
        g == item[2]
        b == item[3]
    IN  IF r > (255 - tolerance) /\ g > (255 - tolerance) /\ b > (255 - tolerance)
        THEN <<r, g, b, 0>>
        ELSE item

remove_white_background(input, tolerance) ==
    LET im == Convert(input)
        data == im.data
        new_data == [i \in DOMAIN data |-> WhitenItem(data[i], tolerance)]
    IN  [im EXCEPT !.data = new_data]

----------------------------------------------------------------------------
(* remove_near_white_with_edges *)

is_white_ish(r, g, b, t) ==
    r > (255 - t) /\ g > (255 - t) /\ b > (255 - t)

\* lines 66-70: the coordinates collected for removal
ToRemove(im, tolerance) ==
    { xy \in (0..(im.width - 1)) \X (0..(im.height - 1)) :
        LET p == GetPixel(im, xy[1], xy[2])
        IN  is_white_ish(p[1], p[2], p[3], tolerance) }

\* the write-back with the coordinates taken as (y, x)
ApplyTransparencyTransposed(im, to_remove) ==
    [im EXCEPT !.data =
        [i \in DOMAIN im.data |->
            LET x == (i - 1) % im.width
                y == (i - 1) \div im.width
                p == im.data[i]
            IN  IF <<y, x>> \in to_remove THEN <<p[1], p[2], p[3], 0>> ELSE p]]

\* lines 73-75: pixels[x, y] = (r, g, b, 0) for every collected coordinate
ApplyTransparency(im, to_remove) ==
    [im EXCEPT !.data =
        [i \in DOMAIN im.data |->
            LET x == (i - 1) % im.width
                y == (i - 1) \div im.width
                p == im.data[i]
            IN  IF <<x, y>> \in to_remove THEN <<p[1], p[2], p[3], 0>> ELSE p]]

remove_near_white_with_edges(input, tolerance) ==
    LET im == Convert(input)
    IN  ApplyTransparency(im, ToRemove(im, tolerance))

----------------------------------------------------------------------------
(* process_sprite_sheet *)

\* line 110: the tolerance for matching the background
tolerance == 35

Abs(n) == IF n < 0 THEN 0 - n ELSE n

NotRun == [err |-> "notrun", saved |-> FALSE, image |-> NoImage]

\* lines 95-100: the coordinates of the four corner reads, in order
CornerCoords(im) ==
    << <<0, 0>>, <<im.width - 1, 0>>, <<0, im.height - 1>>,
       <<im.width - 1, im.height - 1>> >>

\* every corner read succeeds (otherwise pixels[...] raises IndexError)
CornersReadable(im) ==
    \A k \in 1..4 : InRange(im, CornerCoords(im)[k][1], CornerCoords(im)[k][2])

\* lines 103-105: sum(c[ch] for c in corners) // 4, ch = 1 (R), 2 (G), 3 (B)
AvgChannel(im, ch) ==
    LET c(k) == GetPixel(im, CornerCoords(im)[k][1], CornerCoords(im)[k][2])
    IN  (c(1)[ch] + c(2)[ch] + c(3)[ch] + c(4)[ch]) \div 4

AvgColour(im) == <<AvgChannel(im, 1), AvgChannel(im, 2), AvgChannel(im, 3)>>

\* line 117
Dist(p, avg) == Abs(p[1] - avg[1]) + Abs(p[2] - avg[2]) + Abs(p[3] - avg[3])

Min(a, b) == IF a < b THEN a ELSE b
Max(a, b) == IF a > b THEN a ELSE b

\* the ramp with round() in place of int()
RampAlphaRounded(dist) ==
    LET alpha == (2 * (dist - tolerance) * 255 + tolerance * 2) \div (tolerance * 4)
    IN  Min(255, Max(0, alpha))

\* the ramp running the wrong way, opaque next to the background
RampAlphaInverted(dist) ==
    LET alpha == ((tolerance * 3 - dist) * 255) \div (tolerance * 2)
    IN  Min(255, Max(0, alpha))

\* lines 125-126: int((dist - tolerance) / (tolerance * 2) * 255), clamped.
\* int() truncates; dist >= tolerance here, so truncation is the floor, and
\* the float quotient never falls on the wrong side of an integer for
\* dist in tolerance .. 3 * tolerance - 1.
RampAlpha(dist) ==
    LET alpha == ((dist - tolerance) * 255) \div (tolerance * 2)
    IN  Min(255, Max(0, alpha))

\* the loop body painting cleared pixels with the background colour
ClassifyPixelRecolour(p, avg) ==
    LET dist == Dist(p, avg)
    IN  IF dist < tolerance * 3
        THEN IF dist < tolerance
             THEN <<avg[1], avg[2], avg[3], 0>>
             ELSE <<p[1], p[2], p[3], RampAlpha(dist)>>
        ELSE p

\* the loop body with the outer test as dist <= 3 * tolerance
ClassifyPixelInclusive(p, avg) ==
    LET dist == Dist(p, avg)
    IN  IF dist <= tolerance * 3
        THEN IF dist < tolerance
             THEN <<p[1], p[2], p[3], 0>>
             ELSE <<p[1], p[2], p[3], RampAlpha(dist)>>
        ELSE p

\* the loop body scaling the pixel's own alpha by the ramp
ClassifyPixelScaled(p, avg) ==
    LET dist == Dist(p, avg)
    IN  IF dist < tolerance * 3
        THEN IF dist < tolerance
             THEN <<p[1], p[2], p[3], 0>>
             ELSE <<p[1], p[2], p[3], (p[4] * RampAlpha(dist)) \div 255>>
        ELSE p

\* lines 114-127: what the loop body leaves at pixels[x, y]
ClassifyPixel(p, avg) ==
    LET r == p[1]
        g == p[2]
        b == p[3]
        dist == Dist(p, avg)
    IN  IF dist < tolerance * 3
        THEN IF dist < tolerance
             THEN <<r, g, b, 0>>
             ELSE <<r, g, b, RampAlpha(dist)>>
        ELSE p

\* the call with an early return that saves an empty image untouched
process_sprite_sheet_skip_empty(input) ==
    LET im == Convert(input)
    IN  IF ~CornersReadable(im)
        THEN [err |-> "none", saved |-> TRUE, image |-> im]
        ELSE [err |-> "none", saved |-> TRUE,
              image |-> [im EXCEPT !.data =
                  [i \in DOMAIN im.data |-> ClassifyPixel(im.data[i], AvgColour(im))]]]

\* the whole call: err is "none" or the exception that ended it, saved tells
\* whether img.save was reached, image is what was saved
process_sprite_sheet(input) ==
    LET im == Convert(input)
    IN  IF ~CornersReadable(im)
        THEN [err |-> "IndexError", saved |-> FALSE, image |-> NoImage]
        ELSE LET avg == AvgColour(im)
             IN  [err |-> "none", saved |-> TRUE,
                  image |-> [im EXCEPT !.data =
                      [i \in DOMAIN im.data |-> ClassifyPixel(im.data[i], avg)]]]

----------------------------------------------------------------------------
(* main *)

Paths == {"gta_1", "gta_2", "bk_1", "bk_2"}

Exists(f, path) == f[path] # NoImage

\* the step without the exists test on the backup: it copies on every run
MainFileAlwaysCopy(f, sprite, backup, copyFails) ==
    IF ~Exists(f, sprite)
    THEN [fs |-> f, err |-> "none"]
    ELSE IF copyFails
         THEN [fs |-> f, err |-> "PermissionError"]
         ELSE LET f1 == [f EXCEPT ![backup] = f[sprite]]
                  r == process_sprite_sheet(f1[sprite])
              IN  IF r.err # "none"
                  THEN [fs |-> f1, err |-> r.err]
                  ELSE [fs |-> [f1 EXCEPT ![sprite] = r.image], err |-> "none"]

\* lines 148-154 (156-162 for the second sprite): back the sprite up unless
\* the backup exists, then process it in place.  copyFails: shutil.copy2
\* raises PermissionError.  An exception ends the step and is passed on.
MainFile(f, sprite, backup, copyFails) ==
    IF ~Exists(f, sprite)
    THEN [fs |-> f, err |-> "none"]
    ELSE IF ~Exists(f, backup) /\ copyFails
         THEN [fs |-> f, err |-> "PermissionError"]
         ELSE LET f1 == IF ~Exists(f, backup)
                        THEN [f EXCEPT ![backup] = f[sprite]]
                        ELSE f
                  r == process_sprite_sheet(f1[sprite])
              IN  IF r.err # "none"
                  THEN [fs |-> f1, err |-> r.err]
                  ELSE [fs |-> [f1 EXCEPT ![sprite] = r.image], err |-> "none"]

\* lines 133-165: the two sprites in turn; an exception raised while the
\* first is handled leaves main before the second is looked at
main(f, copyFails1, copyFails2) ==
    LET a == MainFile(f, "gta_1", "bk_1", copyFails1)
    IN  IF a.err # "none"
        THEN [fs |-> a.fs, err |-> a.err, at |-> "gta_1"]
        ELSE LET b == MainFile(a.fs, "gta_2", "bk_2", copyFails2)
             IN  IF b.err # "none"
                 THEN [fs |-> b.fs, err |-> b.err, at |-> "gta_2"]
                 ELSE [fs |-> b.fs, err |-> "none", at |-> "done"]

NoReport == [err |-> "notrun", at |-> "start"]

----------------------------------------------------------------------------
(* Inputs *)

\* the sizes an input image of at most MaxPixels pixels can have
Sizes(minDim) ==
    { wh \in (minDim..MaxPixels) \X (minDim..MaxPixels) : wh[1] * wh[2] <= MaxPixels }

\* im is a two-colour image over the given colours
IsInput(im, minDim, probes) ==
    \E wh \in Sizes(minDim), m \in Modes, c1 \in BgColours, c2 \in probes :
        \E lay \in [1..(wh[1] * wh[2]) -> BOOLEAN] :
            im = MkImage(m, wh[1], wh[2], c1, c2, lay)

\* tolerances the whiteners are called with: the two defaults and both ends
TolVals == {0, 30, 40, 255}

\* probe offsets around the thresholds 255 - tolerance of TolVals
WhiteDeltas == {0, 29, 30, 31, 39, 40, 41, 254, 255}

\* sprites main finds in the asset directory (NoImage: the file is missing)
MainImages ==
    { MkImage(m, w, 1, <<255, 255, 255, 255>>, c2, lay) :
        m \in Modes, w \in 0..2, c2 \in {Probe(50, 1), Probe(110, 2)},
        lay \in [1..2 -> BOOLEAN] } \cup {NoImage}

IdleWhite == /\ tol = 0 /\ outFixed = NoImage /\ outEdge = NoImage
IdleSheet == /\ pass1 = NotRun /\ pass2 = NotRun
IdleMain ==
    /\ fs = [p \in Paths |-> NoImage]
    /\ orig = fs
    /\ runs = 0
    /\ report = NoReport

----------------------------------------------------------------------------
(* The whiteners on one input with one tolerance *)

InitWhite ==
    /\ IsInput(img, 1, ProbeColours(WhiteDeltas))
    /\ tol \in TolVals
    /\ outFixed = NoImage
    /\ outEdge = NoImage
    /\ IdleSheet
    /\ IdleMain

RunFixed ==
    /\ outFixed = NoImage
    /\ outFixed' = remove_white_background(img, tol)
    /\ UNCHANGED <<img, tol, outEdge, pass1, pass2, fs, orig, runs, report>>

RunEdge ==
    /\ outEdge = NoImage
    /\ outEdge' = remove_near_white_with_edges(img, tol)
    /\ UNCHANGED <<img, tol, outFixed, pass1, pass2, fs, orig, runs, report>>

NextWhite == RunFixed \/ RunEdge

SpecWhite == InitWhite /\ [][NextWhite]_vars

----------------------------------------------------------------------------
(* process_sprite_sheet on one input, then on its own output *)

InitSheet ==
    /\ IsInput(img, 0, ProbeColours(0..MaxDelta))
    /\ IdleWhite
    /\ IdleSheet
    /\ IdleMain

Pass1 ==
    /\ pass1 = NotRun
    /\ pass1' = process_sprite_sheet(img)
    /\ UNCHANGED <<img, tol, outFixed, outEdge, pass2, fs, orig, runs, report>>

Pass2 ==
    /\ pass1.saved
    /\ pass2 = NotRun
    /\ pass2' = process_sprite_sheet(pass1.image)
    /\ UNCHANGED <<img, tol, outFixed, outEdge, pass1, fs, orig, runs, report>>

NextSheet == Pass1 \/ Pass2

SpecSheet == InitSheet /\ [][NextSheet]_vars

----------------------------------------------------------------------------
(* Successive runs of main over the asset directory *)

InitMain ==
    /\ img = NoImage
    /\ IdleWhite
    /\ IdleSheet
    /\ fs \in [Paths -> MainImages]
    /\ fs["bk_1"] = NoImage
    /\ fs["bk_2"] = NoImage
    /\ orig = fs
    /\ runs = 0
    /\ report = NoReport

Main ==
    /\ runs < MaxRuns
    /\ \E copyFails1 \in BOOLEAN, copyFails2 \in BOOLEAN :
          LET m == main(fs, copyFails1, copyFails2)
          IN  /\ fs' = m.fs
              /\ report' = [err |-> m.err, at |-> m.at]
    /\ runs' = runs + 1
    /\ UNCHANGED <<img, tol, outFixed, outEdge, pass1, pass2, orig>>

NextMain == Main

SpecMain == InitMain /\ [][NextMain]_vars

----------------------------------------------------------------------------
(* Vocabulary of the properties, stated on the decoded input image *)

\* pixel i of the input as the strategies see it: a 3-channel pixel is
\* decoded with alpha 255
Decoded(im, i) ==
    IF im.mode = "RGBA"
    THEN im.data[i]
    ELSE <<im.data[i][1], im.data[i][2], im.data[i][3], 255>>

NonEmpty(im) == im.width >= 1 /\ im.height >= 1

SameShape(im, out) ==
    /\ out.width = im.width
    /\ out.height = im.height
    /\ Len(out.data) = Len(im.data)

NearWhite(p, t) == p[1] > 255 - t /\ p[2] > 255 - t /\ p[3] > 255 - t

\* floor of the mean of channel ch over the pixels at the four corners
BgEstimate(im, ch) ==
    LET w == im.width
        h == im.height
    IN  (Decoded(im, 1)[ch] + Decoded(im, w)[ch]
         + Decoded(im, (h - 1) * w + 1)[ch] + Decoded(im, w * h)[ch]) \div 4

Pixels(im) == 1..(im.width * im.height)

\* Manhattan distance of every input pixel to the background estimate
Dists(im) ==
    LET bg == <<BgEstimate(im, 1), BgEstimate(im, 2), BgEstimate(im, 3)>>
    IN  [i \in Pixels(im) |->
            Abs(Decoded(im, i)[1] - bg[1]) + Abs(Decoded(im, i)[2] - bg[2])
            + Abs(Decoded(im, i)[3] - bg[3])]

PixelDist(im, i) == Dists(im)[i]

----------------------------------------------------------------------------
(* Properties of the whiteners (SpecWhite) *)

\* C1: remove_white_background keeps the pixel count and order, never changes
\* RGB, sets alpha to 0 exactly for the pixels whose three channels all exceed
\* 255 - tolerance, and leaves every other pixel as it was, alpha included.
C1_FixedThreshold ==
    outFixed # NoImage =>
        /\ SameShape(img, outFixed)
        /\ \A i \in Pixels(img) :
              LET p == Decoded(img, i)
                  q == outFixed.data[i]
              IN  IF NearWhite(p, tol)
                  THEN q = <<p[1], p[2], p[3], 0>>
                  ELSE q = p

\* a near-white pixel lost a non-zero alpha while a pixel sitting exactly on
\* the threshold kept its own
C1_Witness ==
    /\ outFixed # NoImage
    /\ tol = 30
    /\ \E i, j \in Pixels(img) :
          /\ NearWhite(Decoded(img, i), tol)
          /\ Decoded(img, i)[4] = 128
          /\ outFixed.data[i][4] = 0
          /\ Decoded(img, j)[3] = 225
          /\ outFixed.data[j][4] = 128

----------------------------------------------------------------------------
(* Properties of process_sprite_sheet (SpecSheet) *)

\* C3: on an image with width >= 1 and height >= 1 the call saves an image of
\* the same width and height in which every pixel has the R, G and B of the
\* input; only alpha can differ.
C3_RgbPreserved ==
    (NonEmpty(img) /\ pass1 # NotRun) =>
        /\ pass1.saved
        /\ SameShape(img, pass1.image)
        /\ \A i \in Pixels(img) :
              /\ pass1.image.data[i][1] = Decoded(img, i)[1]
              /\ pass1.image.data[i][2] = Decoded(img, i)[2]
              /\ pass1.image.data[i][3] = Decoded(img, i)[3]

\* an image with a cleared pixel and a ramp pixel, whose alpha both changed
C3_Witness ==
    /\ pass1.saved
    /\ \E i, j \in Pixels(img) :
          /\ Decoded(img, i)[4] # 0
          /\ pass1.image.data[i][4] = 0
          /\ pass1.image.data[j][4] \in 1..254
          /\ pass1.image.data[j][4] # Decoded(img, j)[4]
          /\ Decoded(img, j)[1] # Decoded(img, j)[2]

\* C4: with the background estimate the floored corner mean of the input and
\* dist the Manhattan distance to it, a pixel with dist < 35 gets alpha 0, a
\* pixel with dist exactly 35 gets alpha 0, and a pixel with dist >= 105
\* (exactly 105 included) is left as it was, RGB and alpha.
C4_ZoneBoundaries ==
    pass1.saved =>
        LET dist == Dists(img)
        IN  \A i \in Pixels(img) :
            LET d == dist[i]
                q == pass1.image.data[i]
            IN  /\ d < 35 => q[4] = 0
                /\ d = 35 => q[4] = 0
                /\ d >= 105 => q = Decoded(img, i)
                /\ d = 105 => q = Decoded(img, i)

\* a pixel exactly T away lost a non-zero alpha while a pixel exactly 3T
\* away in the same image was left as it was
C4_Witness ==
    /\ pass1.saved
    /\ \E i, j \in Pixels(img) :
          /\ PixelDist(img, i) = 35
          /\ Decoded(img, i)[4] # 0
          /\ pass1.image.data[i][4] = 0
          /\ PixelDist(img, j) = 105
          /\ pass1.image.data[j] = Decoded(img, j)

\* C5 as stated: for 35 <= dist < 105 the saved alpha is (dist - 35) * 255 / 70
\* rounded to the nearest integer (either neighbour on a tie).
C5_RampRounded ==
    pass1.saved =>
        LET dist == Dists(img)
        IN  \A i \in Pixels(img) :
            LET d == dist[i]
                q == pass1.image.data[i]
            IN  (d >= 35 /\ d < 105) =>
                    /\ q[4] \in 0..255
                    /\ 2 * Abs(70 * q[4] - 255 * (d - 35)) <= 70

\* C5 amended: for 35 <= dist < 105 the saved alpha is (dist - 35) * 255 / 70
\* truncated to an integer (rounded down), which already lies in 0..255.
C5_RampTruncated ==
    pass1.saved =>
        LET dist == Dists(img)
        IN  \A i \in Pixels(img) :
            LET d == dist[i]
                q == pass1.image.data[i]
            IN  (d >= 35 /\ d < 105) =>
                    /\ q[4] \in 0..255
                    /\ 70 * q[4] <= 255 * (d - 35)
                    /\ 255 * (d - 35) < 70 * (q[4] + 1)

\* dist 36: 255 / 70 = 3.64..., saved as 3 where rounding gives 4
C5_Witness ==
    /\ pass1.saved
    /\ \E i \in Pixels(img) :
          /\ PixelDist(img, i) = 36
          /\ pass1.image.data[i][4] = 3

\* C6: on an image with width >= 1 and height >= 1, process_sprite_sheet
\* applied to its own output saves exactly that output again.
C6_Idempotent ==
    (NonEmpty(img) /\ pass2 # NotRun) =>
        /\ pass2.saved
        /\ pass2.image = pass1.image

\* the second pass ran on an output that has a ramp pixel and differs from
\* the input
C6_Witness ==
    /\ pass2.saved
    /\ \E i \in Pixels(img) :
          /\ pass1.image.data[i][4] \in 1..254
          /\ Decoded(img, i)[4] # pass1.image.data[i][4]

\* C7 as stated: whatever the input alphas, dist1 < dist2 implies that the
\* saved alpha of the first pixel is <= the saved alpha of the second.
C7_Monotone ==
    pass1.saved =>
        LET dist == Dists(img)
        IN  \A i, j \in Pixels(img) :
            dist[i] < dist[j] =>
                pass1.image.data[i][4] <= pass1.image.data[j][4]

\* C7 amended: dist1 < dist2 implies saved alpha 1 <= saved alpha 2 provided
\* the second pixel lies below 3T or is opaque (alpha 255) in the input; a
\* pixel at dist >= 3T keeps whatever alpha it came with.
C7_MonotoneOpaqueFar ==
    pass1.saved =>
        LET dist == Dists(img)
        IN  \A i, j \in Pixels(img) :
            (/\ dist[i] < dist[j]
             /\ (dist[j] < 105 \/ Decoded(img, j)[4] = 255)) =>
                pass1.image.data[i][4] <= pass1.image.data[j][4]

\* two ramp pixels at different distances with different saved alphas
C7_Witness ==
    /\ pass1.saved
    /\ \E i, j \in Pixels(img) :
          /\ PixelDist(img, i) >= 35
          /\ PixelDist(img, i) < PixelDist(img, j)
          /\ PixelDist(img, j) < 105
          /\ pass1.image.data[i][4] < pass1.image.data[j][4]

----------------------------------------------------------------------------
(* Properties of main (SpecMain) *)

Sprites == { <<"gta_1", "bk_1">>, <<"gta_2", "bk_2">> }

\* C9: a backup is only ever written from the sprite as it was before the
\* first run, and a sprite is only overwritten once its backup exists: after
\* any number of runs each backup holds the sprite's original content.
C9_BackupHoldsOriginal ==
    \A sb \in Sprites :
        /\ Exists(fs, sb[2]) => (Exists(orig, sb[1]) /\ fs[sb[2]] = orig[sb[1]])
        /\ fs[sb[1]] # orig[sb[1]] => Exists(fs, sb[2])

\* after a second run both sprites are processed images and both backups
\* still hold the originals
C9_Witness ==
    /\ runs >= 2
    /\ report.at = "done"
    /\ \A sb \in Sprites :
          /\ Exists(fs, sb[2])
          /\ fs[sb[1]] # orig[sb[1]]
          /\ fs[sb[2]] = orig[sb[1]]
          /\ fs[sb[1]] = process_sprite_sheet(orig[sb[1]]).image

\* C10: when the backup of gta_1 fails, gta_1 is not overwritten and gta_2,
\* if it exists, is still backed up and processed in the same run.
C10_BackupFailureIsolated ==
    (/\ report.err = "PermissionError"
     /\ report.at = "gta_1"
     /\ Exists(orig, "gta_2")
     /\ NonEmpty(orig["gta_2"])) =>
        /\ fs["gta_1"] = orig["gta_1"]
        /\ Exists(fs, "bk_2")
        /\ fs["gta_2"] = process_sprite_sheet(orig["gta_2"]).image

====
